---- MODULE Spec2Model ----
(***************************************************************************)
(* GyroTracker::track / GyroTracker::matchFeatures of                      *)
(* aslam_cv_tracker/src/feature-tracker-gyro.cc as a state machine.        *)
(*                                                                         *)
(* Pixel coordinates are doubles in the code.  They are kept here in       *)
(* half-pixel units (the integer 7 is the coordinate 3.5), so that the     *)
(* "+ 0.5" and the double -> int conversions of the row and column bounds  *)
(* are computed as the code computes them.  Keypoint indices are 1-based   *)
(* (the code's index n is n+1 here); rows of the image are 0-based.        *)
(***************************************************************************)
EXTENDS Integers, Sequences, FiniteSets, TLC

----------------------------------------------------------------------------
(* Bounds of the model.                                                    *)
ImageHeight == 6
MaxPointsK == 2
MaxPointsKp1 == 2

(* Configuration constants of the tracker (feature-tracker-gyro.h, pixels  *)
(* and a ratio Num/Den), scaled to the small image of the model.           *)
kSmallSearchDistance == 2
kLargeSearchDistance == 4
kMatchingThresholdBitsRatioNum == 4
kMatchingThresholdBitsRatioDen == 5

----------------------------------------------------------------------------
(* Small numeric helpers.                                                  *)
Min(a, b) == IF a < b THEN a ELSE b
Max(a, b) == IF a > b THEN a ELSE b

(* The lambda clamp(lower, upper, in).                                     *)
clamp(lower, upper, in) == Min(Max(in, lower), upper)

(* Conversion double -> int of the value v2 / 2: truncation toward zero.   *)
ToInt(v2) == IF v2 >= 0 THEN v2 \div 2 ELSE -((-v2) \div 2)

(* Bytes and their bit operations.                                         *)
BitOf(b, k) == (b \div (2 ^ k)) % 2

RECURSIVE BitwiseSum(_, _, _)
BitwiseSum(a, b, k) ==
  IF k > 7 THEN 0
  ELSE (IF BitOf(a, k) # BitOf(b, k) THEN 2 ^ k ELSE 0) + BitwiseSum(a, b, k + 1)

(* The byte values the descriptors of the model are made of.                *)
ByteValues == {0, 1, 3, 127, 255}

XorTable == [a \in ByteValues |-> [b \in ByteValues |-> BitwiseSum(a, b, 0)]]

ByteXor(a, b) == XorTable[a][b]

RECURSIVE BitwiseProd(_, _, _)
BitwiseProd(a, b, k) ==
  IF k > 7 THEN 0
  ELSE (IF BitOf(a, k) = 1 /\ BitOf(b, k) = 1 THEN 2 ^ k ELSE 0)
       + BitwiseProd(a, b, k + 1)

ByteAnd(a, b) == BitwiseProd(a, b, 0)

(* while (val) { ++distance; val &= val - 1; }                             *)
RECURSIVE CountBits(_)
CountBits(val) == IF val = 0 THEN 0 ELSE 1 + CountBits(ByteAnd(val, val - 1))

BitCount == [val \in 0..255 |-> CountBits(val)]

----------------------------------------------------------------------------
(* Descriptor memory.  The descriptors of a frame are the columns of one   *)
(* column-major byte matrix: descriptor n of a frame whose descriptors     *)
(* have size bytes starts at offset (n-1)*size.  A read past the end of    *)
(* the matrix yields the byte "beyond" (any value: the read is undefined). *)
RECURSIVE DescriptorMemory(_)
DescriptorMemory(pts) ==
  IF pts = <<>> THEN <<>> ELSE Head(pts).d \o DescriptorMemory(Tail(pts))

ReadByte(mem, beyond, off) == IF off <= Len(mem) THEN mem[off] ELSE beyond

(* hammingDistance512(x, y) with the captured size nbytes; x and y are     *)
(* the offsets of the two descriptors in their memories.                   *)
RECURSIVE hammingDistance512(_, _, _, _, _, _, _, _)
hammingDistance512(memx, bx, offx, memy, by, offy, nbytes, i) ==
  IF i >= nbytes THEN 0
  ELSE BitCount[ByteXor(ReadByte(memx, bx, offx + i + 1),
                        ReadByte(memy, by, offy + i + 1))]
       + hammingDistance512(memx, bx, offx, memy, by, offy, nbytes, i + 1)

----------------------------------------------------------------------------
(* The row-bucketed index.                                                 *)

(* Mutant of AdvanceCursor: the cursor also passes a keypoint of row y.    *)
RECURSIVE AdvanceCursor_Inclusive(_, _, _)
AdvanceCursor_Inclusive(by_y, y, v) ==
  IF v < Len(by_y) /\ 2 * y >= by_y[v + 1].y
  THEN AdvanceCursor_Inclusive(by_y, y, v + 1)
  ELSE v

(* The inner while loop of the table construction: the cursor v advances   *)
(* while row y lies strictly below the next keypoint's row.                *)
RECURSIVE AdvanceCursor(_, _, _)
AdvanceCursor(by_y, y, v) ==
  IF v < Len(by_y) /\ 2 * y > by_y[v + 1].y
  THEN AdvanceCursor(by_y, y, v + 1)
  ELSE v

(* The outer for loop: one push_back per image row.                        *)
RECURSIVE BuildLUT(_, _, _, _)
BuildLUT(by_y, y, v, lut) ==
  IF y >= ImageHeight THEN lut
  ELSE LET w == AdvanceCursor(by_y, y, v)
       IN  BuildLUT(by_y, y + 1, w, Append(lut, w))

(* corner_row_LUT as a sequence: entry y + 1 is the code's entry y.        *)
MakeCornerRowLUT(by_y) == BuildLUT(by_y, 0, 0, <<>>)

LUTAt(lut, y) == lut[y + 1]

(* idxnearest / idxnear for a predicted row py (half pixels) and a search  *)
(* distance (pixels): clamp(0, image_height - 1, py + 0.5 -/+ distance).   *)
IdxTop(py, dist) == clamp(0, ImageHeight - 1, ToInt(py + 1 - 2 * dist))
IdxBottom(py, dist) == clamp(0, ImageHeight - 1, ToInt(py + 1 + 2 * dist))

(* nearest_top / near_top and nearest_bottom / near_bottom.                *)
WindowTop(py, dist) == Min(IdxTop(py, dist), ImageHeight - 1)
WindowBottom(py, dist) == Min(IdxBottom(py, dist) + 1, ImageHeight - 1)

(* The iterator range [begin, end) into keypoints_kp1_by_y, as offsets.    *)
CornersBegin(lut, py, dist) == LUTAt(lut, WindowTop(py, dist))
CornersEnd(lut, py, dist) == LUTAt(lut, WindowBottom(py, dist))

(* bound_left_* and bound_right_*: int conversions of px -/+ distance.     *)
BoundLeft(px, dist) == ToInt(px - 2 * dist)
BoundRight(px, dist) == ToInt(px + 2 * dist)

OutsideColumns(c, px, dist) ==
  c.x < 2 * BoundLeft(px, dist) \/ c.x > 2 * BoundRight(px, dist)

(* (predicted - measurement).norm() < distance * 2, squared, half pixels.  *)
NormBelowTwice(c, px, py, dist) ==
  (c.x - px) * (c.x - px) + (c.y - py) * (c.y - py) < (4 * dist) * (4 * dist)

----------------------------------------------------------------------------
(* Scoring.                                                                *)

(* best_score = static_cast<int>(kdescriptorSizeBits * ratio).             *)
InitialBestScore(bits) ==
  (bits * kMatchingThresholdBitsRatioNum) \div kMatchingThresholdBitsRatioDen

(* Mutant of AcceptScore: a score equal to the running best is taken.      *)
AcceptScore_NotStrict(current_score, best_score) == current_score >= best_score

(* if (current_score > best_score)                                         *)
AcceptScore(current_score, best_score) == current_score > best_score

(* kdescriptorSizeBits - hammingDistance512(descriptor_k, descriptor_kp1)  *)
(* for source keypoint i and target keypoint j of the call ctx.            *)
CurrentScore(ctx, i, j) ==
  8 * ctx.nbytes
  - hammingDistance512(ctx.descriptors_k, ctx.beyond_k, (i - 1) * ctx.size,
                       ctx.descriptors_kp1, ctx.beyond_kp1,
                       (j - 1) * ctx.size, ctx.nbytes, 0)

(* The state of the search for one source keypoint.                        *)
SearchStart(ctx) ==
  [best_score |-> InitialBestScore(8 * ctx.nbytes), it_best |-> 0,
   found |-> FALSE, processed |-> {}, n_processed_corners |-> 0,
   check_failed |-> FALSE, examined |-> <<>>]

(* The part of both loop bodies after the filters: score, compare, CHECK,  *)
(* then mark the corner processed.                                         *)
Examine(ctx, i, it, st, dist, phase) ==
  LET c == ctx.by_y[it + 1]
      p == ctx.frame_k[i]
      score == CurrentScore(ctx, i, c.index)
      acc == AcceptScore(score, st.best_score)
      seen == [index |-> c.index, score |-> score,
               best_before |-> st.best_score, accepted |-> acc,
               phase |-> phase]
  IN  IF acc /\ ~NormBelowTwice(c, p.x, p.y, dist)
      THEN [st EXCEPT !.best_score = score, !.it_best = it + 1,
                      !.found = TRUE, !.check_failed = TRUE,
                      !.examined = Append(@, seen)]
      ELSE [st EXCEPT !.best_score = IF acc THEN score ELSE @,
                      !.it_best = IF acc THEN it + 1 ELSE @,
                      !.found = IF acc THEN TRUE ELSE @,
                      !.processed = @ \cup {c.index},
                      !.n_processed_corners = @ + 1,
                      !.examined = Append(@, seen)]

(* First search small window.                                              *)
RECURSIVE SearchSmallWindow(_, _, _, _, _, _)
SearchSmallWindow(ctx, matched, i, it, end, st) ==
  IF it >= end \/ st.check_failed THEN st
  ELSE LET c == ctx.by_y[it + 1]
           p == ctx.frame_k[i]
       IN  IF OutsideColumns(c, p.x, kSmallSearchDistance) \/ matched[c.index]
           THEN SearchSmallWindow(ctx, matched, i, it + 1, end, st)
           ELSE SearchSmallWindow(ctx, matched, i, it + 1, end,
                  Examine(ctx, i, it, st, kSmallSearchDistance, "small"))

(* If no match in small window, increase window and search again.          *)
RECURSIVE SearchLargeWindow(_, _, _, _, _, _)
SearchLargeWindow(ctx, matched, i, it, end, st) ==
  IF it >= end \/ st.check_failed THEN st
  ELSE LET c == ctx.by_y[it + 1]
           p == ctx.frame_k[i]
       IN  IF (c.index \in st.processed \/ matched[c.index])
              \/ OutsideColumns(c, p.x, kLargeSearchDistance)
           THEN SearchLargeWindow(ctx, matched, i, it + 1, end, st)
           ELSE SearchLargeWindow(ctx, matched, i, it + 1, end,
                  Examine(ctx, i, it, st, kLargeSearchDistance, "large"))

(* Mutant of SearchAgain: the large window is always searched.             *)
SearchAgain_Always(found) == TRUE

(* Mutant of MarkMatched: the claimed keypoint is not flagged.             *)
MarkMatched_Forgets(matched, index) == matched

(* if (!found): the large window is searched only then.                    *)
SearchAgain(found) == ~found

(* is_keypoint_kp1_matched.at(it_best->index) = true                       *)
MarkMatched(matched, index) == [matched EXCEPT ![index] = TRUE]

(* The end of a loop iteration, lines 200-210: commit the match or report  *)
(* the no-match sample.  small and final are the search states after the   *)
(* small-window loop and at the end of the search.                         *)
FinishKeypoint(ctx, matched, i, small, final, again) ==
  LET best == IF final.found THEN ctx.by_y[final.it_best].index ELSE 0
      commit == final.found /\ ~final.check_failed
  IN  [i |-> i, found |-> final.found, check_failed |-> final.check_failed,
       small_found |-> small.found, large_searched |-> again,
       best_index |-> best, best_score |-> final.best_score,
       n_processed_corners |-> final.n_processed_corners,
       examined |-> final.examined, matched_before |-> matched,
       matched_after |-> IF commit THEN MarkMatched(matched, best) ELSE matched,
       emitted |-> IF commit
                   THEN <<[kp1 |-> best, k |-> i, score |-> 0]>> ELSE <<>>]

(* The large-window search, if the small window gave nothing.              *)
AfterSmallWindow(ctx, matched, i, small) ==
  IF ~small.check_failed /\ SearchAgain(small.found)
  THEN FinishKeypoint(ctx, matched, i, small,
         SearchLargeWindow(ctx, matched, i,
           CornersBegin(ctx.lut, ctx.frame_k[i].y, kLargeSearchDistance),
           CornersEnd(ctx.lut, ctx.frame_k[i].y, kLargeSearchDistance), small),
         TRUE)
  ELSE FinishKeypoint(ctx, matched, i, small, small, FALSE)

(* One iteration of the loop over the keypoints of frame k.                *)
MatchKeypoint(ctx, matched, i) ==
  AfterSmallWindow(ctx, matched, i,
    SearchSmallWindow(ctx, matched, i,
      CornersBegin(ctx.lut, ctx.frame_k[i].y, kSmallSearchDistance),
      CornersEnd(ctx.lut, ctx.frame_k[i].y, kSmallSearchDistance),
      SearchStart(ctx)))

----------------------------------------------------------------------------
(* The inputs of a call.                                                   *)

DescriptorSizes == {1, 5}

(* The descriptor every keypoint of frame k carries, and the descriptors   *)
(* of frame k+1 by how they compare with it when all bytes of the call's   *)
(* descriptors are compared: equal, one bit above the matching threshold,  *)
(* exactly at the threshold.                                               *)
DescriptorK(size) ==
  IF size = 1 THEN <<0>> ELSE <<0, 0, 0, 0, 0>>

DescriptorAbove(size) ==
  IF size = 1 THEN <<1>> ELSE <<127, 0, 0, 0, 0>>

DescriptorAt(size) ==
  IF size = 1 THEN <<3>> ELSE <<255, 0, 0, 0, 0>>

LastRow == 2 * (ImageHeight - 1)

(* The keypoints of frame k+1, in half pixels: three in the first image    *)
(* row at column 4.5, two in the first image row 2.5 pixels beside it      *)
(* (inside the large, outside the small search distance), one in the last  *)
(* image row.                                                              *)
PointsKp1(size) ==
  {[x |-> 9, y |-> 0, d |-> d] :
     d \in {DescriptorK(size), DescriptorAbove(size), DescriptorAt(size)}}
  \cup {[x |-> 14, y |-> 0, d |-> d] :
          d \in {DescriptorAbove(size), DescriptorAt(size)}}
  \cup {[x |-> 9, y |-> LastRow, d |-> DescriptorK(size)]}

(* The keypoints of frame k at their predicted positions: 4.5 pixels above *)
(* the image, in its first and in its last row.                            *)
PointsK(size) ==
  {[x |-> 9, y |-> y, d |-> DescriptorK(size)] : y \in {-9, 0, LastRow}}

SeqsUpTo(S, n) == UNION {[1..m -> S] : m \in 0..n}

(* What track() reads of the two frames before it delegates; TRUE is the   *)
(* value the corresponding CHECK wants.  k_hasDescriptors is read by no    *)
(* CHECK of track().                                                       *)
PreconditionNames ==
  {"k_hasKeypointMeasurements", "kp1_hasKeypointMeasurements",
   "k_cameraIdMatches", "kp1_cameraIdMatches", "k_hasTrackIds",
   "kp1_hasTrackIds", "timestampsIncrease", "kp1_hasDescriptors",
   "kp1_descriptorRowsMatch", "kp1_keypointColsMatch", "k_hasDescriptors"}

AllHold == [n \in PreconditionNames |-> TRUE]

(* The calls: every pair of frames with all preconditions holding, and one *)
(* pair of frames with every combination of violated preconditions.        *)
ValidCalls ==
  UNION {[pre : {AllHold}, size : {size},
          frame_k : SeqsUpTo(PointsK(size), MaxPointsK),
          frame_kp1 : SeqsUpTo(PointsKp1(size), MaxPointsKp1)]
         : size \in DescriptorSizes}

InvalidCalls ==
  [pre : [PreconditionNames -> BOOLEAN] \ {AllHold}, size : {1},
   frame_k : {<<[x |-> 9, y |-> 0, d |-> <<0>>]>>},
   frame_kp1 : {<<[x |-> 9, y |-> 0, d |-> <<0>>]>>}]

NoCall == [pre |-> AllHold, size |-> 1, frame_k |-> <<>>, frame_kp1 |-> <<>>]

----------------------------------------------------------------------------
(* GyroTrackerMatchingData: the keypoints of frame k+1 sorted by row, each *)
(* with its index in the frame.  Keypoints of equal row may come in any    *)
(* order.                                                                  *)
SortedPermutations(frame) ==
  {s \in [1..Len(frame) -> 1..Len(frame)] :
     /\ \A a, b \in 1..Len(frame) : a # b => s[a] # s[b]
     /\ \A a, b \in 1..Len(frame) : a < b => frame[s[a]].y <= frame[s[b]].y}

KeypointsByY(frame, s) ==
  [n \in 1..Len(frame) |->
     [index |-> s[n], x |-> frame[s[n]].x, y |-> frame[s[n]].y]]

(* What the construction of the matching data requires of frame k.        *)
MatchingDataChecks(pre) == pre["k_hasDescriptors"]

(* Bytes a read past the end of a descriptor matrix may yield.             *)
BeyondBytes == {0, 255}

----------------------------------------------------------------------------
VARIABLES
  pc,                    \* where the caller / the call is
  call,                  \* the arguments of the current call
  kdescriptorSizeBytes,  \* the function-local static; 0: not initialised
  keypoints_kp1_by_y,    \* matching_data.keypoints_kp1_by_y
  corner_row_LUT,
  beyond_k, beyond_kp1,  \* what lies past the two descriptor matrices
  i,                     \* the loop variable of matchFeatures
  is_keypoint_kp1_matched,
  matches_with_score_kp1_k,
  log,                   \* per processed keypoint of frame k: what happened
  delegated,             \* track() reached its call of matchFeatures
  abort_reason           \* which CHECK ended the process, "" if none

vars == <<pc, call, kdescriptorSizeBytes, keypoints_kp1_by_y, corner_row_LUT,
          beyond_k, beyond_kp1, i, is_keypoint_kp1_matched,
          matches_with_score_kp1_k, log, delegated, abort_reason>>

Init ==
  /\ pc = "idle"
  /\ call = NoCall
  /\ kdescriptorSizeBytes = 0
  /\ keypoints_kp1_by_y = <<>>
  /\ corner_row_LUT = <<>>
  /\ beyond_k = 0
  /\ beyond_kp1 = 0
  /\ i = 0
  /\ is_keypoint_kp1_matched = <<>>
  /\ matches_with_score_kp1_k = <<>>
  /\ log = <<>>
  /\ delegated = FALSE
  /\ abort_reason = ""

(* The CHECKs of track(), lines 25-37.                                     *)
TrackChecks(pre) ==
  /\ pre["k_hasKeypointMeasurements"]
  /\ pre["kp1_hasKeypointMeasurements"]
  /\ pre["k_cameraIdMatches"]
  /\ pre["kp1_cameraIdMatches"]
  /\ pre["k_hasTrackIds"]
  /\ pre["kp1_hasTrackIds"]
  /\ pre["timestampsIncrease"]
  /\ pre["kp1_hasDescriptors"]
  /\ pre["kp1_descriptorRowsMatch"]
  /\ pre["kp1_keypointColsMatch"]

(* track(): the CHECKs, then the call of matchFeatures.                    *)
Track ==
  /\ pc = "idle"
  /\ \E c \in ValidCalls \cup InvalidCalls :
       /\ call' = c
       /\ IF TrackChecks(c.pre)
          THEN pc' = "matchFeatures" /\ delegated' = TRUE /\ abort_reason' = ""
          ELSE pc' = "aborted" /\ delegated' = FALSE
               /\ abort_reason' = "track"
  /\ matches_with_score_kp1_k' = <<>>
  /\ UNCHANGED <<kdescriptorSizeBytes, keypoints_kp1_by_y, corner_row_LUT,
                 beyond_k, beyond_kp1, i, is_keypoint_kp1_matched, log>>

(* matchFeatures up to its loop: the matching data, the lookup table, the  *)
(* static descriptor size (set by the first call only), the flags.         *)
MatchFeaturesSetup ==
  /\ pc = "matchFeatures"
  /\ IF ~MatchingDataChecks(call.pre)
     THEN /\ pc' = "aborted"
          /\ abort_reason' = "matching_data"
          /\ UNCHANGED <<kdescriptorSizeBytes, keypoints_kp1_by_y,
                         corner_row_LUT, beyond_k, beyond_kp1, i,
                         is_keypoint_kp1_matched>>
     ELSE LET nbytes == IF kdescriptorSizeBytes = 0 THEN call.size
                        ELSE kdescriptorSizeBytes
          IN  /\ \E s \in SortedPermutations(call.frame_kp1) :
                   /\ keypoints_kp1_by_y' = KeypointsByY(call.frame_kp1, s)
                   /\ corner_row_LUT' =
                        MakeCornerRowLUT(KeypointsByY(call.frame_kp1, s))
              /\ kdescriptorSizeBytes' = nbytes
              /\ \E bk, bkp1 \in BeyondBytes :
                   /\ beyond_k' = (IF nbytes > call.size THEN bk ELSE 0)
                   /\ beyond_kp1' = (IF nbytes > call.size THEN bkp1 ELSE 0)
              /\ is_keypoint_kp1_matched' =
                   [n \in 1..Len(call.frame_kp1) |-> FALSE]
              /\ i' = 1
              /\ IF nbytes * 8 <= 512
                 THEN pc' = "loop" /\ abort_reason' = ""
                 ELSE pc' = "aborted" /\ abort_reason' = "descriptor_size"
  /\ UNCHANGED <<call, matches_with_score_kp1_k, log, delegated>>

(* What one loop iteration reads.                                          *)
Context(c, by_y, lut, nbytes, bk, bkp1) ==
  [frame_k |-> c.frame_k, frame_kp1 |-> c.frame_kp1, size |-> c.size,
   descriptors_k |-> DescriptorMemory(c.frame_k),
   descriptors_kp1 |-> DescriptorMemory(c.frame_kp1),
   by_y |-> by_y, lut |-> lut, nbytes |-> nbytes,
   beyond_k |-> bk, beyond_kp1 |-> bkp1]

CurrentContext ==
  Context(call, keypoints_kp1_by_y, corner_row_LUT, kdescriptorSizeBytes,
          beyond_k, beyond_kp1)

(* One iteration of the loop over the keypoints of frame k.                *)
MatchNextKeypoint ==
  /\ pc = "loop"
  /\ i <= Len(call.frame_k)
  /\ \E r \in {MatchKeypoint(CurrentContext, is_keypoint_kp1_matched, i)} :
         /\ log' = Append(log, r)
         /\ IF r.check_failed
            THEN /\ pc' = "aborted"
                 /\ abort_reason' = "distance"
                 /\ UNCHANGED <<i, is_keypoint_kp1_matched,
                                matches_with_score_kp1_k>>
            ELSE /\ is_keypoint_kp1_matched' = r.matched_after
                 /\ matches_with_score_kp1_k' =
                      matches_with_score_kp1_k \o r.emitted
                 /\ i' = i + 1
                 /\ UNCHANGED <<pc, abort_reason>>
  /\ UNCHANGED <<call, kdescriptorSizeBytes, keypoints_kp1_by_y,
                 corner_row_LUT, beyond_k, beyond_kp1, delegated>>

(* The loop ends; matchFeatures and track return.                          *)
MatchFeaturesReturn ==
  /\ pc = "loop"
  /\ i > Len(call.frame_k)
  /\ pc' = "done"
  /\ UNCHANGED <<call, kdescriptorSizeBytes, keypoints_kp1_by_y,
                 corner_row_LUT, beyond_k, beyond_kp1, i,
                 is_keypoint_kp1_matched, matches_with_score_kp1_k, log,
                 delegated, abort_reason>>

(* The caller takes the matches; everything of the call is gone, the       *)
(* static descriptor size stays.                                           *)
NextFramePair ==
  /\ pc = "done"
  /\ pc' = "idle"
  /\ call' = NoCall
  /\ keypoints_kp1_by_y' = <<>>
  /\ corner_row_LUT' = <<>>
  /\ beyond_k' = 0
  /\ beyond_kp1' = 0
  /\ i' = 0
  /\ is_keypoint_kp1_matched' = <<>>
  /\ matches_with_score_kp1_k' = <<>>
  /\ log' = <<>>
  /\ delegated' = FALSE
  /\ UNCHANGED <<kdescriptorSizeBytes, abort_reason>>

Next ==
  \/ Track
  \/ MatchFeaturesSetup
  \/ MatchNextKeypoint
  \/ MatchFeaturesReturn
  \/ NextFramePair

Spec == Init /\ [][Next]_vars

----------------------------------------------------------------------------
(* Vocabulary of the properties.                                           *)

Abs(a) == IF a < 0 THEN -a ELSE a

NumPointsK == Len(call.frame_k)
NumPointsKp1 == Len(call.frame_kp1)

(* matchFeatures has built its table and flags for the current call.       *)
InMatchFeatures ==
  pc \in {"loop", "done"} \/ (pc = "aborted" /\ abort_reason = "distance")

(* Target j lies within dist pixels of the predicted position of source n, *)
(* in the row and in the column axis.                                      *)
WithinRadius(n, j, dist) ==
  /\ Abs(call.frame_kp1[j].x - call.frame_k[n].x) <= 2 * dist
  /\ Abs(call.frame_kp1[j].y - call.frame_k[n].y) <= 2 * dist

(* The score of the pair (n, j) over the descriptors of the call's frames: *)
(* their bit width minus their Hamming distance.                           *)
FrameContext ==
  Context(call, keypoints_kp1_by_y, corner_row_LUT, call.size, 0, 0)

FrameScore(n, j) == CurrentScore(FrameContext, n, j)

(* score > descriptor_bit_width * match_threshold_ratio, over the reals.   *)
ExceedsThreshold(score, bits) ==
  score * kMatchingThresholdBitsRatioDen > bits * kMatchingThresholdBitsRatioNum

EqualsThreshold(score, bits) ==
  score * kMatchingThresholdBitsRatioDen = bits * kMatchingThresholdBitsRatioNum

(* Target j is in the range of rows and columns the large-window loop of   *)
(* source n walks over.                                                    *)
InLargeWindow(n, j) ==
  \E it \in CornersBegin(corner_row_LUT, call.frame_k[n].y, kLargeSearchDistance)
            .. CornersEnd(corner_row_LUT, call.frame_k[n].y, kLargeSearchDistance) - 1 :
     /\ keypoints_kp1_by_y[it + 1].index = j
     /\ ~OutsideColumns(keypoints_kp1_by_y[it + 1], call.frame_k[n].x,
                        kLargeSearchDistance)

ExaminedIn(e, phase) ==
  {e.examined[a].index : a \in {b \in 1..Len(e.examined) : e.examined[b].phase = phase}}

(* The identity case: frame k+1 holds the keypoints and descriptors of     *)
(* frame k, and every predicted position is the keypoint's own position.   *)
IdentityCase ==
  /\ NumPointsK = NumPointsKp1
  /\ \A n \in 1..NumPointsK : call.frame_k[n] = call.frame_kp1[n]

(* No keypoint of frame k+1 lies within the large search distance of the  *)
(* predicted position of source n, in both axes.                           *)
NoTargetWithinLarge(n) ==
  \A j \in 1..NumPointsKp1 : ~WithinRadius(n, j, kLargeSearchDistance)

(* The table has one entry per image row and never decreases.             *)
LUTShape ==
  /\ Len(corner_row_LUT) = ImageHeight
  /\ \A y \in 0..(ImageHeight - 2) :
        LUTAt(corner_row_LUT, y) <= LUTAt(corner_row_LUT, y + 1)

----------------------------------------------------------------------------
(* C1: the matches of one call are injective on both sides: no index into  *)
(* frame k+1 and no index into frame k occurs in two matches.              *)
C1_Injective ==
  \A a, b \in 1..Len(matches_with_score_kp1_k) :
     a # b => /\ matches_with_score_kp1_k[a].kp1 # matches_with_score_kp1_k[b].kp1
              /\ matches_with_score_kp1_k[a].k # matches_with_score_kp1_k[b].k

(* Two keypoints of frame k, both able to match the same keypoint of       *)
(* frame k+1, have both been matched.                                      *)
C1_Witness ==
  /\ pc = "done"
  /\ Len(matches_with_score_kp1_k) = 2
  /\ \E j \in 1..NumPointsKp1 :
       /\ log[2].matched_before[j]
       /\ InLargeWindow(2, j)
       /\ CurrentScore(CurrentContext, 2, j) > InitialBestScore(8 * kdescriptorSizeBytes)

(* C2 (as claimed): in the identity case (predicted positions and          *)
(* descriptors of frame k equal to the keypoints of frame k+1) every       *)
(* keypoint of frame k ends matched to a keypoint at Hamming distance 0.   *)
C2_IdentityMatchesAll ==
  (pc = "done" /\ IdentityCase) =>
    \A n \in 1..NumPointsK :
       \E a \in 1..Len(matches_with_score_kp1_k) :
          /\ matches_with_score_kp1_k[a].k = n
          /\ call.frame_kp1[matches_with_score_kp1_k[a].kp1].d = call.frame_k[n].d

(* C3: when the small-window loop accepts a candidate the large-window     *)
(* loop does not run for that keypoint, and the committed keypoint is one  *)
(* the small-window loop examined.                                         *)
C3_PhaseGating ==
  \A a \in 1..Len(log) :
     log[a].small_found =>
       /\ ~log[a].large_searched
       /\ ExaminedIn(log[a], "large") = {}
       /\ log[a].best_index \in ExaminedIn(log[a], "small")
       /\ \A m \in 1..Len(log[a].emitted) :
             log[a].emitted[m].kp1 \in ExaminedIn(log[a], "small")

(* The small window gave a match although an unclaimed keypoint that only  *)
(* the large window holds scores strictly higher.                          *)
C3_Witness ==
  \E a \in 1..Len(log) :
     /\ log[a].small_found
     /\ log[a].emitted # <<>>
     /\ \E j \in 1..NumPointsKp1 :
          /\ ~log[a].matched_before[j]
          /\ j \notin ExaminedIn(log[a], "small")
          /\ InLargeWindow(a, j)
          /\ WithinRadius(a, j, kLargeSearchDistance)
          /\ CurrentScore(CurrentContext, a, j) > log[a].best_score

(* C4: with bits the descriptor bit width the code scores with and         *)
(* T = bits * ratio: a candidate whose score equals T is never accepted;   *)
(* every accepted candidate scores above T; the first candidate a keypoint *)
(* examines is accepted exactly if its score exceeds T (so the conversion  *)
(* of T to int changes nothing), in particular at T plus one bit.          *)
C4_ThresholdBoundary ==
  \A a \in 1..Len(log) : \A b \in 1..Len(log[a].examined) :
     LET c == log[a].examined[b]
         bits == 8 * kdescriptorSizeBytes
     IN  /\ EqualsThreshold(c.score, bits) => ~c.accepted
         /\ c.accepted => ExceedsThreshold(c.score, bits)
         /\ b = 1 => (c.accepted <=> ExceedsThreshold(c.score, bits))
         /\ (Len(log[a].examined) = 1 /\ EqualsThreshold(c.score - 1, bits))
               => (c.accepted /\ log[a].found)

(* One keypoint took its only candidate at T plus one bit, another one     *)
(* turned a candidate at exactly T down.                                   *)
C4_Witness ==
  /\ \E a \in 1..Len(log) :
        /\ Len(log[a].examined) = 1
        /\ EqualsThreshold(log[a].examined[1].score - 1, 8 * kdescriptorSizeBytes)
        /\ log[a].emitted # <<>>
  /\ \E a \in 1..Len(log) : \E b \in 1..Len(log[a].examined) :
        /\ EqualsThreshold(log[a].examined[b].score, 8 * kdescriptorSizeBytes)
        /\ ~log[a].examined[b].accepted

(* C5 (as claimed): a keypoint of frame k with no keypoint of frame k+1    *)
(* within the large search distance of its predicted position, in both     *)
(* axes, gets no match and a no-match sample of 0 examined candidates.     *)
C5_OutOfWindow ==
  \A a \in 1..Len(log) :
     NoTargetWithinLarge(a) =>
       /\ ~log[a].found
       /\ log[a].emitted = <<>>
       /\ log[a].n_processed_corners = 0

----------------------------------------------------------------------------
(* The call as if it were the first one: the loop of matchFeatures run     *)
(* with the descriptor size of the call's frames.                          *)
RECURSIVE RunLoop(_, _, _, _)
RunLoop(ctx, matched, n, matches) ==
  IF n > Len(ctx.frame_k) THEN [aborted |-> FALSE, matches |-> matches]
  ELSE LET r == MatchKeypoint(ctx, matched, n)
       IN  IF r.check_failed THEN [aborted |-> TRUE, matches |-> matches]
           ELSE RunLoop(ctx, r.matched_after, n + 1, matches \o r.emitted)

AsFirstCall ==
  RunLoop(FrameContext, [n \in 1..NumPointsKp1 |-> FALSE], 1, <<>>)

(* C7 (as claimed): whatever calls came before, a call ends as it would    *)
(* have ended as the first call on the tracker, with the same matches.     *)
C7_NoStateAcrossCalls ==
  /\ pc = "done" =>
       AsFirstCall = [aborted |-> FALSE, matches |-> matches_with_score_kp1_k]
  /\ (pc = "aborted" /\ abort_reason = "distance") => AsFirstCall.aborted

(* C8 (as claimed): track() reaches matchFeatures exactly if every         *)
(* precondition holds, those on the descriptors of frame k included.       *)
C8_PreconditionsGuardMatching ==
  pc # "idle" =>
    /\ (\E n \in PreconditionNames : ~call.pre[n]) => ~delegated
    /\ call.pre = AllHold => (delegated /\ abort_reason # "track")

(* C9 (as claimed): a keypoint of frame k gets a match exactly if, when it *)
(* is processed, some unclaimed keypoint of frame k+1 lies within the      *)
(* large search distance in both axes and scores above the threshold.      *)
C9_SearchComplete ==
  \A a \in 1..Len(log) :
     (log[a].emitted # <<>>) <=>
       \E j \in 1..NumPointsKp1 :
          /\ ~log[a].matched_before[j]
          /\ WithinRadius(a, j, kLargeSearchDistance)
          /\ ExceedsThreshold(FrameScore(a, j), 8 * call.size)

(* C10 (as claimed): neither distance CHECK of matchFeatures ever fails.   *)
C10_DistanceChecksHold ==
  /\ abort_reason # "distance"
  /\ \A a \in 1..Len(log) : ~log[a].check_failed

====
